---- MODULE Spec2Model ----
(***************************************************************************)
(* Model of expand_template.py: a command-line tool that reads a template  *)
(* file, replaces markers @{key} by values given as key=value arguments,   *)
(* and writes the result to the file named by --out.                       *)
(*                                                                         *)
(* A Python str is modelled as a sequence of one-character strings.        *)
(***************************************************************************)
EXTENDS Integers, Sequences, FiniteSets, TLC

VARIABLES
    argv,       \* the command line: positionals and the --out option
    tmplFile,   \* content of the file named by the template path
    pc,         \* position of the module body
    args,       \* the namespace parse_args() returns
    template,   \* variable `template`
    result,     \* variable `result`
    i,          \* index of the for loop over args.replacements
    outFile,    \* content of the file named by --out
    exitCode,   \* exit status of the process
    log,        \* history: the I/O and substitution events, in order
    accs        \* history: the values `result` has held, in order

vars == <<argv, tmplFile, pc, args, template, result, i, outFile, exitCode, log, accs>>

----------------------------------------------------------------------------
(* Bounds and input alphabets *)

MaxReps == 2

a == <<"a">>
b == <<"b">>
one == <<"1">>
two == <<"2">>
final == <<"f", "i", "n", "a", "l">>
weird == <<"}", "@", "{">>

\* values distinct from every str
Undef == <<"UNDEF">>
Unreadable == <<"UNREADABLE">>
NoFile == <<"NOFILE">>
Running == -1

----------------------------------------------------------------------------
(* String functions of the Python runtime, as the program uses them *)

RECURSIVE Find(_, _, _)
\* str.find(sub, start): least index >= from at which sub occurs in s, 0 if none
Find(s, sub, from) ==
    IF from + Len(sub) - 1 > Len(s) THEN 0
    ELSE IF SubSeq(s, from, from + Len(sub) - 1) = sub THEN from
    ELSE Find(s, sub, from + 1)

RECURSIVE SplitTrimmed(_)
\* a split that drops empty fields (as str.split() without separator would)
SplitTrimmed(s) ==
    LET p == Find(s, <<"=">>, 1) IN
    IF p = 0 THEN (IF s = <<>> THEN <<>> ELSE <<s>>)
    ELSE (IF p = 1 THEN <<>> ELSE <<SubSeq(s, 1, p - 1)>>)
         \o SplitTrimmed(SubSeq(s, p + 1, Len(s)))

\* r.split("=", 1): split at the first separator only
SplitFirst(s) ==
    LET p == Find(s, <<"=">>, 1) IN
    IF p = 0 THEN <<s>>
    ELSE <<SubSeq(s, 1, p - 1), SubSeq(s, p + 1, Len(s))>>

RECURSIVE Split(_)
\* r.split("="): the fields between the separators, empty fields kept
Split(s) ==
    LET p == Find(s, <<"=">>, 1) IN
    IF p = 0 THEN <<s>>
    ELSE <<SubSeq(s, 1, p - 1)>> \o Split(SubSeq(s, p + 1, Len(s)))

\* result.replace(old, new, 1): the first occurrence only
ReplaceFirst(s, old, new) ==
    LET p == Find(s, old, 1) IN
    IF p = 0 THEN s
    ELSE SubSeq(s, 1, p - 1) \o new \o SubSeq(s, p + Len(old), Len(s))

RECURSIVE Replace(_, _, _)
\* s.replace(old, new) for a non-empty old: scan left to right, copy up to the
\* next occurrence, emit new, resume after the occurrence
Replace(s, old, new) ==
    LET p == Find(s, old, 1) IN
    IF p = 0 THEN s
    ELSE SubSeq(s, 1, p - 1) \o new
         \o Replace(SubSeq(s, p + Len(old), Len(s)), old, new)

\* "@{" + k without the closing brace
MarkerOpen(k) == <<"@", "{">> \o k

\* "@{" + k + "}"
Marker(k) == <<"@", "{">> \o k \o <<"}">>

----------------------------------------------------------------------------
(* The inputs: command lines and template files *)

KV(k, v) == k \o <<"=">> \o v

RawReps ==
    { KV(a, one), KV(a, two), KV(a, <<>>), KV(a, Marker(b)), KV(a, Marker(a)),
      KV(b, final), KV(<<>>, one), KV(<<>>, <<>>), KV(weird, one),
      a, KV(a, KV(b, one)), <<>> }

Templates ==
    { <<>>,
      Marker(a),
      Marker(b),
      Marker(a) \o <<"-">> \o Marker(a),
      Marker(a) \o <<" ">> \o Marker(b),
      <<"p", "l", "a", "i", "n">>,
      Marker(<<>>),
      Marker(<<>>) \o Marker(<<>>),
      Marker(<<>>) \o Marker(<<>>) \o Marker(<<>>),
      <<"@", "{">> \o Marker(a) \o <<"a", "}">>,
      <<"@", "{", "a">> }

SeqsUpTo(S, n) == UNION { [1..m -> S] : m \in 0..n }

NoArgs == [parsed |-> FALSE, replacements |-> <<>>, out |-> "None"]

Init ==
    /\ argv \in
         { [template |-> FALSE, replacements |-> <<>>, out |-> o] :
             o \in {"absent", "novalue", "path"} }
         \cup
         { [template |-> TRUE, replacements |-> rs, out |-> o] :
             rs \in SeqsUpTo(RawReps, MaxReps), o \in {"absent", "novalue", "path"} }
    /\ tmplFile \in Templates \cup {Unreadable}
    /\ pc = "parse"
    /\ args = NoArgs
    /\ template = Undef
    /\ result = Undef
    /\ i = 0
    /\ outFile = NoFile
    /\ exitCode = Running
    /\ log = <<>>
    /\ accs = <<>>

----------------------------------------------------------------------------
(* The module body, one action per statement *)

Fail(code) ==
    /\ pc' = "failed"
    /\ exitCode' = code

\* nargs="*" in place of nargs="+"
ArgsAcceptedStar(av) ==
    /\ av.template
    /\ av.out # "novalue"

\* positionals "template" and "replacements" (nargs="+"), option --out VALUE
ArgsAccepted(av) ==
    /\ av.template
    /\ Len(av.replacements) >= 1
    /\ av.out # "novalue"

\* args = parser.parse_args(): an argument error exits with status 2
ParseArgs ==
    /\ pc = "parse"
    /\ IF ArgsAccepted(argv)
       THEN /\ args' = [parsed |-> TRUE,
                        replacements |-> argv.replacements,
                        out |-> IF argv.out = "path" THEN "path" ELSE "None"]
            /\ pc' = "read"
            /\ UNCHANGED exitCode
       ELSE /\ Fail(2)
            /\ UNCHANGED args
    /\ UNCHANGED <<argv, tmplFile, template, result, i, outFile, log, accs>>

\* with args.template.open("r") as tmpl: template = tmpl.read()
ReadTemplate ==
    /\ pc = "read"
    /\ IF tmplFile = Unreadable
       THEN /\ Fail(1)
            /\ UNCHANGED <<template, log>>
       ELSE /\ template' = tmplFile
            /\ log' = Append(log, "read")
            /\ pc' = "assign"
            /\ UNCHANGED exitCode
    /\ UNCHANGED <<argv, tmplFile, args, result, i, outFile, accs>>

\* result = template; the for statement takes its iterator
AssignResult ==
    /\ pc = "assign"
    /\ result' = template
    /\ accs' = <<template>>
    /\ i' = 1
    /\ pc' = "loop"
    /\ UNCHANGED <<argv, tmplFile, args, template, outFile, exitCode, log>>

\* the loop body with the substitution made in the template, not in result
LoopStepOnTemplate ==
    /\ pc = "loop"
    /\ i <= Len(args.replacements)
    /\ LET r == args.replacements[i]
           parts == Split(r)
           next == IF Len(parts) = 2
                   THEN Replace(template, Marker(parts[1]), parts[2])
                   ELSE result
       IN /\ result' = next
          /\ accs' = Append(accs, next)
    /\ i' = i + 1
    /\ log' = Append(log, "step")
    /\ UNCHANGED <<argv, tmplFile, pc, args, template, outFile, exitCode>>

\* the loop body without the len(parts) == 2 test: the unpacking raises
LoopStepUnpack ==
    /\ pc = "loop"
    /\ i <= Len(args.replacements)
    /\ LET r == args.replacements[i]
           parts == Split(r)
       IN IF Len(parts) = 2
          THEN /\ result' = Replace(result, Marker(parts[1]), parts[2])
               /\ accs' = Append(accs, result')
               /\ i' = i + 1
               /\ log' = Append(log, "step")
               /\ UNCHANGED <<pc, exitCode>>
          ELSE /\ Fail(1)
               /\ UNCHANGED <<result, accs, i, log>>
    /\ UNCHANGED <<argv, tmplFile, args, template, outFile>>

\* the loop body with the entries collected in a dict first: an entry whose key
\* a later well-formed entry repeats is not applied
LoopStepLastWins ==
    /\ pc = "loop"
    /\ i <= Len(args.replacements)
    /\ LET r == args.replacements[i]
           parts == Split(r)
           shadowed == \E j \in (i + 1)..Len(args.replacements) :
                          LET q == Split(args.replacements[j])
                          IN Len(q) = 2 /\ Len(parts) = 2 /\ q[1] = parts[1]
           next == IF Len(parts) = 2 /\ ~shadowed
                   THEN Replace(result, Marker(parts[1]), parts[2])
                   ELSE result
       IN /\ result' = next
          /\ accs' = Append(accs, next)
    /\ i' = i + 1
    /\ log' = Append(log, "step")
    /\ UNCHANGED <<argv, tmplFile, pc, args, template, outFile, exitCode>>

\* for r in args.replacements: one iteration of the loop body
LoopStep ==
    /\ pc = "loop"
    /\ i <= Len(args.replacements)
    /\ LET r == args.replacements[i]
           parts == Split(r)
           next == IF Len(parts) = 2
                   THEN Replace(result, Marker(parts[1]), parts[2])
                   ELSE result
       IN /\ result' = next
          /\ accs' = Append(accs, next)
    /\ i' = i + 1
    /\ log' = Append(log, "step")
    /\ UNCHANGED <<argv, tmplFile, pc, args, template, outFile, exitCode>>

\* the iterator is exhausted: control leaves the for statement
LoopEnd ==
    /\ pc = "loop"
    /\ i > Len(args.replacements)
    /\ pc' = "open"
    /\ UNCHANGED <<argv, tmplFile, args, template, result, i, outFile, exitCode, log, accs>>

\* args.out.open("w") with args.out None: AttributeError
OpenOutNone ==
    /\ pc = "open"
    /\ args.out = "None"
    /\ Fail(1)
    /\ UNCHANGED <<argv, tmplFile, args, template, result, i, outFile, log, accs>>

\* args.out.open("w") raises OSError (no parent directory, no permission)
OpenOutFails ==
    /\ pc = "open"
    /\ args.out = "path"
    /\ Fail(1)
    /\ UNCHANGED <<argv, tmplFile, args, template, result, i, outFile, log, accs>>

\* the output file opened inside the loop, before the entries are all processed
OpenOutEarly ==
    /\ pc \in {"loop", "open"}
    /\ args.out = "path"
    /\ outFile' = <<>>
    /\ log' = Append(log, "open")
    /\ pc' = "write"
    /\ UNCHANGED <<argv, tmplFile, args, template, result, i, exitCode, accs>>

\* with args.out.open("w") as out: the file is created or truncated
OpenOut ==
    /\ pc = "open"
    /\ args.out = "path"
    /\ outFile' = <<>>
    /\ log' = Append(log, "open")
    /\ pc' = "write"
    /\ UNCHANGED <<argv, tmplFile, args, template, result, i, exitCode, accs>>

\* out.write(result); the with block closes the file; the interpreter exits 0
WriteOut ==
    /\ pc = "write"
    /\ outFile' = result
    /\ log' = Append(log, "write")
    /\ pc' = "done"
    /\ exitCode' = 0
    /\ UNCHANGED <<argv, tmplFile, args, template, result, i, accs>>

Next ==
    \/ ParseArgs
    \/ ReadTemplate
    \/ AssignResult
    \/ LoopStep
    \/ LoopEnd
    \/ OpenOutNone
    \/ OpenOutFails
    \/ OpenOut
    \/ WriteOut

Spec == Init /\ [][Next]_vars

----------------------------------------------------------------------------
(* Vocabulary of the properties, defined without the operators above *)

reps == argv.replacements

\* the loop has been left: every entry has been processed
Finished ==
    \/ pc \in {"open", "write", "done"}
    \/ pc = "failed" /\ accs # <<>>

CountEq(s) == Cardinality({ p \in DOMAIN s : s[p] = "=" })

WellFormed(r) == CountEq(r) = 1

EqPos(r) == CHOOSE p \in DOMAIN r : r[p] = "="

KeyOf(r) == [p \in 1..(EqPos(r) - 1) |-> r[p]]

ValueOf(r) == [p \in 1..(Len(r) - EqPos(r)) |-> r[EqPos(r) + p]]

MarkerFor(k) == <<"@", "{">> \o k \o <<"}">>

\* the positions at which m occurs in s
Occ(s, m) ==
    { p \in 1..(Len(s) - Len(m) + 1) :
        \A q \in 1..Len(m) : s[p + q - 1] = m[q] }

Min(S) == CHOOSE x \in S : \A y \in S : x <= y

Max(S) == CHOOSE x \in S : \A y \in S : x >= y

RECURSIVE Picks(_, _, _)
\* the occurrences a left-to-right, non-overlapping scan from position `from` takes
Picks(s, m, from) ==
    LET later == { p \in Occ(s, m) : p >= from } IN
    IF later = {} THEN {}
    ELSE {Min(later)} \cup Picks(s, m, Min(later) + Len(m))

RECURSIVE Rebuild(_, _, _, _, _)
\* s with the occurrences of m at the positions `picks` replaced by v
Rebuild(s, m, v, picks, pos) ==
    IF pos > Len(s) THEN <<>>
    ELSE IF pos \in picks THEN v \o Rebuild(s, m, v, picks, pos + Len(m))
    ELSE <<s[pos]>> \o Rebuild(s, m, v, picks, pos + 1)

ReplaceAll(s, m, v) == Rebuild(s, m, v, Picks(s, m, 1), 1)

\* the step of the fold: a well-formed entry substitutes, any other does nothing
Subst(acc, r) ==
    IF WellFormed(r) THEN ReplaceAll(acc, MarkerFor(KeyOf(r)), ValueOf(r)) ELSE acc

RECURSIVE FoldLeft(_, _, _)
FoldLeft(acc, rs, j) ==
    IF j > Len(rs) THEN acc ELSE FoldLeft(Subst(acc, rs[j]), rs, j + 1)

Steps == 1..(Len(accs) - 1)

StepCount == Cardinality({ p \in DOMAIN log : log[p] = "step" })

IsPrefix(s, t) == Len(s) <= Len(t) /\ \A p \in DOMAIN s : s[p] = t[p]

Plain(k) == \A p \in DOMAIN k : k[p] \notin {"@", "{", "}"}

\* the keys k of the markers @{k} of t: the text between a "@{" and the first
\* "}" that follows it
KeysIn(t) ==
    { SubSeq(t, pq[1] + 2, pq[2] - 1) : pq \in
        { pq \in (DOMAIN t) \X (DOMAIN t) :
            /\ pq[1] + 2 <= pq[2]
            /\ t[pq[1]] = "@"
            /\ t[pq[1] + 1] = "{"
            /\ t[pq[2]] = "}"
            /\ \A n \in (pq[1] + 2)..(pq[2] - 1) : t[n] # "}" } }

SuppliedKeys == { KeyOf(reps[j]) : j \in { n \in DOMAIN reps : WellFormed(reps[n]) } }

----------------------------------------------------------------------------
(* C1 *)

\* C1: the result is the left fold over the replacement list, starting from the
\* template, of "substitute if the entry has exactly one =, else leave
\* unchanged"; every step works on the accumulator of the previous step, so the
\* order of the entries is observable.
C1_SequentialFold ==
    /\ accs # <<>> =>
         /\ accs[1] = template
         /\ result = accs[Len(accs)]
         /\ \A j \in Steps : accs[j + 1] = Subst(accs[j], reps[j])
    /\ Finished =>
         /\ Len(accs) = Len(reps) + 1
         /\ result = FoldLeft(template, reps, 1)
         /\ (template = MarkerFor(a) /\ reps = <<KV(a, MarkerFor(b)), KV(b, final)>>)
              => result = final
         /\ (template = MarkerFor(a) /\ reps = <<KV(b, final), KV(a, MarkerFor(b))>>)
              => result = MarkerFor(b)

C1_Witness ==
    /\ Finished
    /\ template = MarkerFor(a)
    /\ reps = <<KV(a, MarkerFor(b)), KV(b, final)>>
    /\ accs = <<MarkerFor(a), MarkerFor(b), final>>
    /\ result = final

----------------------------------------------------------------------------
(* C2 *)

\* C2 as stated: an invocation with a template, an output path and an empty
\* replacement list is not an argument error, and runs on to produce a result
\* equal to the template.
C2_EmptyListIdentity ==
    (argv.template /\ reps = <<>> /\ argv.out = "path" /\ tmplFile # Unreadable) =>
        /\ exitCode # 2
        /\ pc = "done" => outFile = tmplFile

\* C2 amended: an empty replacement list is rejected by the argument parser
\* (exit status 2) before the template is read, so no result is produced; when
\* replacement strings are supplied and none of them is a well-formed key=value
\* entry, the result equals the template unchanged.
C2_NoKeyValueIdentity ==
    /\ (reps = <<>> /\ pc # "parse") =>
         /\ pc = "failed"
         /\ exitCode = 2
         /\ log = <<>>
         /\ template = Undef
         /\ result = Undef
         /\ outFile = NoFile
    /\ (Finished /\ \A j \in DOMAIN reps : ~WellFormed(reps[j])) =>
         /\ result = template
         /\ pc = "done" => outFile = tmplFile

C2_Witness ==
    /\ argv.template
    /\ reps = <<>>
    /\ argv.out = "path"
    /\ tmplFile = MarkerFor(a)
    /\ pc = "failed"
    /\ exitCode = 2

----------------------------------------------------------------------------
(* C3 *)

\* C3: an entry with zero or with two or more = characters is skipped: the
\* accumulator after it equals the accumulator before it, the loop does not
\* fail on it, and every later well-formed entry is still applied.
C3_MalformedSkipped ==
    /\ \A j \in Steps : ~WellFormed(reps[j]) => accs[j + 1] = accs[j]
    /\ \A j \in Steps : \A n \in Steps :
         (j < n /\ ~WellFormed(reps[j]) /\ WellFormed(reps[n])) =>
            accs[n + 1] = ReplaceAll(accs[n], MarkerFor(KeyOf(reps[n])), ValueOf(reps[n]))
    /\ (accs # <<>> /\ \E j \in DOMAIN reps : ~WellFormed(reps[j])) =>
         /\ pc = "loop" => Len(accs) = i
         /\ pc # "loop" => Len(accs) = Len(reps) + 1
    /\ (Finished /\ template = MarkerFor(a)) =>
         /\ reps = <<a>> => result = MarkerFor(a)
         /\ reps = <<KV(a, KV(b, one))>> => result = MarkerFor(a)
         /\ reps = <<KV(a, KV(b, one)), KV(a, one)>> => result = one

C3_Witness ==
    /\ Finished
    /\ template = MarkerFor(a)
    /\ reps = <<KV(a, KV(b, one)), KV(a, one)>>
    /\ accs = <<MarkerFor(a), MarkerFor(a), one>>

----------------------------------------------------------------------------
(* C4 *)

\* the occurrences taken by the scan are pairwise non-overlapping, and every
\* occurrence not taken overlaps one that starts before it and was taken
ScanIsLeftmost(s, m) ==
    LET P == Picks(s, m, 1) IN
    /\ P \subseteq Occ(s, m)
    /\ \A p \in P : \A q \in P : p < q => p + Len(m) <= q
    /\ \A o \in Occ(s, m) \ P : \E p \in P : p < o /\ o < p + Len(m)
    /\ Occ(s, m) # {} => Min(Occ(s, m)) \in P

\* C4: a step for a well-formed entry replaces every occurrence of @{key} found
\* by one left-to-right, non-overlapping scan of the accumulator as it stood
\* before the step, and does not scan the inserted text again.
C4_ReplaceAllOneScan ==
    /\ \A j \in Steps : WellFormed(reps[j]) =>
         LET m == MarkerFor(KeyOf(reps[j])) IN
         /\ ScanIsLeftmost(accs[j], m)
         /\ accs[j + 1] = Rebuild(accs[j], m, ValueOf(reps[j]), Picks(accs[j], m, 1), 1)
         /\ Len(accs[j + 1]) = Len(accs[j])
              + Cardinality(Picks(accs[j], m, 1)) * (Len(ValueOf(reps[j])) - Len(m))
    /\ Finished =>
         /\ (template = MarkerFor(a) \o <<"-">> \o MarkerFor(a) /\ reps = <<KV(a, one)>>)
              => result = <<"1", "-", "1">>
         /\ (template = MarkerFor(a) /\ reps = <<KV(a, MarkerFor(a))>>)
              => result = MarkerFor(a)
         /\ (template = MarkerFor(<<>>) \o MarkerFor(<<>>) \o MarkerFor(<<>>)
               /\ reps = <<KV(weird, one)>>)
              => result = <<"1">> \o MarkerFor(<<>>)

C4_Witness ==
    /\ Finished
    /\ template = MarkerFor(a) \o <<"-">> \o MarkerFor(a)
    /\ reps = <<KV(a, one)>>
    /\ result = <<"1", "-", "1">>

----------------------------------------------------------------------------
(* C5 *)

\* a step whose marker does not occur in the accumulator changes nothing
AbsentMarkerNoOp ==
    \A j \in Steps :
        (WellFormed(reps[j]) /\ Occ(accs[j], MarkerFor(KeyOf(reps[j]))) = {})
            => accs[j + 1] = accs[j]

\* C5 as stated: a step whose marker does not occur changes nothing, and every
\* marker @{k} of the template for which no well-formed entry with key k is
\* supplied appears in the final result.
C5_UnresolvedSurvive ==
    /\ AbsentMarkerNoOp
    /\ pc = "done" =>
         \A k \in KeysIn(template) \ SuppliedKeys : Occ(outFile, MarkerFor(k)) # {}

\* C5 amended: a step whose marker does not occur changes nothing, and every
\* marker @{k} of the template for which no well-formed entry with key k is
\* supplied appears in the final result at least as often as in the template,
\* provided neither k nor any supplied key contains one of the characters @ { }
\* (otherwise the marker of another entry can overlap @{k} and consume it).
C5_PlainUnresolvedSurvive ==
    /\ AbsentMarkerNoOp
    /\ (Finished /\ \A s \in SuppliedKeys : Plain(s)) =>
         \A k \in KeysIn(template) \ SuppliedKeys :
            Plain(k) =>
               /\ Occ(result, MarkerFor(k)) # {}
               /\ Cardinality(Occ(result, MarkerFor(k)))
                    >= Cardinality(Occ(template, MarkerFor(k)))
    /\ Finished =>
         /\ (template = MarkerFor(a) \o <<" ">> \o MarkerFor(b) /\ reps = <<KV(a, one)>>)
              => result = <<"1", " ">> \o MarkerFor(b)
         /\ (template = <<"p", "l", "a", "i", "n">> /\ reps = <<KV(a, one)>>)
              => result = <<"p", "l", "a", "i", "n">>

C5_Witness ==
    /\ Finished
    /\ template = MarkerFor(a) \o <<" ">> \o MarkerFor(b)
    /\ reps = <<KV(a, one)>>
    /\ b \in KeysIn(template) \ SuppliedKeys
    /\ result = <<"1", " ">> \o MarkerFor(b)

----------------------------------------------------------------------------
(* C6 *)

\* the well-formed entries with key k
Dups(k) == { j \in DOMAIN reps : WellFormed(reps[j]) /\ KeyOf(reps[j]) = k }

\* those of them whose marker occurs in the accumulator when they are reached
Hits(k) == { j \in Dups(k) \cap Steps : Occ(accs[j], MarkerFor(k)) # {} }

\* C6: entries that repeat a key are each applied in turn to the live
\* accumulator; the last one whose marker still occurs when it is reached
\* replaces the surviving instances, and a later duplicate whose marker no
\* longer occurs changes nothing.
C6_DuplicateKeys ==
    /\ \A k \in SuppliedKeys : \A j \in Dups(k) \cap Steps :
         accs[j + 1] = IF j \in Hits(k)
                       THEN ReplaceAll(accs[j], MarkerFor(k), ValueOf(reps[j]))
                       ELSE accs[j]
    /\ Finished =>
         \A k \in SuppliedKeys :
            Hits(k) # {} =>
               LET last == Max(Hits(k)) IN
               /\ \A n \in Dups(k) : n > last => accs[n + 1] = accs[n]
               /\ (\A n \in (last + 1)..Len(reps) : n \in Dups(k) \/ ~WellFormed(reps[n]))
                    => result = ReplaceAll(accs[last], MarkerFor(k), ValueOf(reps[last]))
    /\ (Finished /\ template = MarkerFor(a)) =>
         /\ reps = <<KV(a, one), KV(a, two)>> => result = one
         /\ reps = <<KV(a, MarkerFor(a)), KV(a, two)>> => result = two

C6_Witness ==
    /\ Finished
    /\ template = MarkerFor(a)
    /\ reps = <<KV(a, one), KV(a, two)>>
    /\ Hits(a) = {1}
    /\ result = one

----------------------------------------------------------------------------
(* C7 *)

\* the events of a complete run with n replacement entries
RunEvents(n) == <<"read">> \o [j \in 1..n |-> "step"] \o <<"open", "write">>

\* C7: the template is read once, before the first substitution step, and is
\* never modified afterwards; the output file is opened and written at most
\* once, only after the last entry has been processed, with the final
\* accumulator as its content; a run that fails earlier leaves it untouched.
C7_EventOrder ==
    /\ IsPrefix(log, RunEvents(Len(reps)))
    /\ IF log = <<>> THEN template = Undef ELSE template = tmplFile
    /\ accs # <<>> => accs[1] = tmplFile
    /\ (log = <<>> \/ log[Len(log)] \in {"read", "step"}) => outFile = NoFile
    /\ (log # <<>> /\ log[Len(log)] = "open") =>
         /\ outFile = <<>>
         /\ Len(accs) = Len(reps) + 1
    /\ (log # <<>> /\ log[Len(log)] = "write") =>
         /\ outFile = result
         /\ outFile = accs[Len(reps) + 1]
         /\ pc = "done"
         /\ exitCode = 0
    /\ (pc = "failed" /\ (exitCode = 2 \/ tmplFile = Unreadable)) =>
         /\ outFile = NoFile
         /\ log = <<>>

C7_Witness ==
    /\ pc = "done"
    /\ reps = <<KV(a, one), KV(b, final)>>
    /\ tmplFile = MarkerFor(a) \o <<" ">> \o MarkerFor(b)
    /\ log = <<"read", "step", "step", "open", "write">>
    /\ outFile = <<"1", " ">> \o final

----------------------------------------------------------------------------
(* C8 *)

\* C8: an argument error (no template path, a missing --out value, or no
\* --out at all) aborts the process before the template is read and before
\* any substitution step, with a non-zero exit status and no output written.
C8_ArgErrorBeforeWork ==
    (~argv.template \/ argv.out \in {"novalue", "absent"}) =>
        /\ pc = "failed" => exitCode # 0
        /\ log = <<>>
        /\ template = Undef
        /\ accs = <<>>
        /\ outFile = NoFile

----------------------------------------------------------------------------
(* C9 *)

\* C9: the replacement loop is total: it performs exactly one step per entry,
\* whatever the entries are, never fails, and ends with a result after the
\* last entry.
C9_LoopTotal ==
    /\ pc = "loop" =>
         /\ i \in 1..(Len(reps) + 1)
         /\ Len(accs) = i
         /\ StepCount = i - 1
    /\ pc = "failed" =>
         \/ accs = <<>> /\ StepCount = 0
         \/ /\ Len(accs) = Len(reps) + 1
            /\ StepCount = Len(reps)
            /\ i = Len(reps) + 1
    /\ pc \in {"open", "write", "done"} =>
         /\ Len(accs) = Len(reps) + 1
         /\ StepCount = Len(reps)
         /\ i = Len(reps) + 1
         /\ result # Undef

C9_Witness ==
    /\ pc = "open"
    /\ reps = <<<<>>, KV(a, KV(b, one))>>
    /\ StepCount = 2
    /\ result = template

----------------------------------------------------------------------------
(* C10 *)

\* C10: an entry with exactly one = is applied even when its key or its value
\* is empty: "k=" deletes every occurrence of @{k}, "=v" replaces every
\* occurrence of @{} by v, and "=" deletes every occurrence of @{}.
C10_EmptyKeyOrValue ==
    /\ \A j \in Steps :
         (WellFormed(reps[j]) /\ (KeyOf(reps[j]) = <<>> \/ ValueOf(reps[j]) = <<>>)) =>
            LET m == MarkerFor(KeyOf(reps[j])) IN
            /\ accs[j + 1] = ReplaceAll(accs[j], m, ValueOf(reps[j]))
            /\ Occ(accs[j], m) # {} => accs[j + 1] # accs[j]
    /\ Finished =>
         /\ (template = MarkerFor(a) \o <<"-">> \o MarkerFor(a) /\ reps = <<KV(a, <<>>)>>)
              => result = <<"-">>
         /\ (template = MarkerFor(<<>>) \o MarkerFor(<<>>) /\ reps = <<KV(<<>>, one)>>)
              => result = <<"1", "1">>
         /\ (template = MarkerFor(<<>>) \o MarkerFor(<<>>) /\ reps = <<KV(<<>>, <<>>)>>)
              => result = <<>>

C10_Witness ==
    /\ Finished
    /\ template = MarkerFor(a) \o <<"-">> \o MarkerFor(a)
    /\ reps = <<KV(a, <<>>)>>
    /\ result = <<"-">>

====
